---- MODULE Spec2Model ----
(***************************************************************************)
(* Desktop-mode compatibility layer of AncestorTree: the RPC dispatcher    *)
(* with the subtree traversal (rpc-handlers.ts) and the query executor     *)
(* (query-builder.ts) over an embedded sql.js connection.                  *)
(***************************************************************************)
EXTENDS Integers, Sequences, FiniteSets, TLC

\* ------------------------------------------------------------------------
\* Bounds of the family graph explored for the RPC dispatcher
\* ------------------------------------------------------------------------
MaxChildRows == 3

Persons == 1..3
FamilyKeys == 1..2
\* 0 stands for SQL NULL in father_id / mother_id and for a missing
\* (undefined / empty) RPC parameter
NoPerson == 0

VARIABLES
    \* --- embedded engine: the table a query request addresses ---
    table,         \* payload.table
    rows,          \* the stored rows of that table, in rowid order
    \* --- one executeQuery invocation ---
    payload,       \* the rest of the QueryPayload
    qPc,           \* position inside executeQuery
    idx,           \* index of the next record of the insert loop
    insertedRows,  \* insertedRows of executeInsert
    qOpenStmts,    \* prepared statements not yet freed
    clock,         \* the latest instant new Date() has returned
    nextUuid,      \* number of the next identifier generateUUID returns
    caught,        \* the value caught by executeQuery, if any
    mapperCalls,   \* number of calls of sqliteError
    runLog,        \* the statements db.run has carried out in this call
    rowsAtCall,    \* the stored rows when the call began
    qOutcome,      \* "none" | "returned" | "threw"
    qResult,       \* the QueryResult returned
    \* --- embedded engine: the family graph tables ---
    families,      \* families table: family id -> [father_id, mother_id]
    children,      \* children table: set of <<family_id, person_id>> rows
    \* --- one handleRpc invocation ---
    functionName,  \* name of the RPC function requested
    rootId,        \* params.root_id
    targetId,      \* params.target_id
    rpcPc,         \* position inside handleRpc / isPersonInSubtree
    visited,       \* Set<string> visited
    queue,         \* the work queue
    familyIds,     \* familyIds still to be looked at for currentId
    childCursor,   \* rows childStmt has not yet returned
    openStmts,     \* prepared statements not yet freed
    engineCalls,   \* number of statements prepared on the connection
    expanded,      \* persons marked visited and queried, in order
    rpcOutcome,    \* "none" | "returned" | "threw"
    rpcResult,     \* the RpcResult returned
    \* --- the coercions applied in turn to one record ---
    coerceTable,   \* the table argument
    coerceSteps,   \* the record first given and after each coercion
    \* --- one buildWhere invocation ---
    whereTable,    \* the table argument
    whereFilters,  \* the filters argument
    whereResult    \* the clause and params returned

rpcVars == <<families, children, functionName, rootId, targetId, rpcPc,
             visited, queue, familyIds, childCursor, openStmts,
             engineCalls, expanded, rpcOutcome, rpcResult>>

queryVars == <<table, rows, payload, qPc, idx, insertedRows, qOpenStmts,
               clock, nextUuid, caught, mapperCalls, runLog, rowsAtCall,
               qOutcome, qResult>>

coerceVars == <<coerceTable, coerceSteps>>

whereVars == <<whereTable, whereFilters, whereResult>>

fnVars == <<coerceVars, whereVars>>

vars == <<queryVars, rpcVars, fnVars>>

\* ------------------------------------------------------------------------
\* Result shape {data, error}
\* ------------------------------------------------------------------------
\* a message is kept as the sequence of its parts
NoError == [tag |-> "none", message |-> <<>>, code |-> ""]
ErrorOf(msg, code) == [tag |-> "error", message |-> msg, code |-> code]
NullData == [tag |-> "null"]
BoolData(b) == [tag |-> "bool", val |-> b]
RowData(r) == [tag |-> "row", row |-> r]
RowsData(rs) == [tag |-> "rows", rows |-> rs]
NoResult == [data |-> NullData, error |-> NoError]

\* ------------------------------------------------------------------------
\* Engine: the two traversal statements
\* ------------------------------------------------------------------------
\* the family query with the mother_id disjunct left out
FamilyQueryFatherOnly(p) ==
    {f \in FamilyKeys : families[f].father_id = p}

\* SELECT id FROM families WHERE father_id = ? OR mother_id = ?
FamilyQuery(p) ==
    {f \in FamilyKeys : families[f].father_id = p \/ families[f].mother_id = p}

\* SELECT person_id FROM children WHERE family_id = ?
ChildQuery(f) == {r \in children : r[1] = f}

\* all orders in which the engine may return a set of rows
SeqsOf(S) ==
    {s \in [1..Cardinality(S) -> S] : \A i, j \in 1..Cardinality(S) : s[i] = s[j] => i = j}

\* ------------------------------------------------------------------------
\* Values of the application and of the engine
\* ------------------------------------------------------------------------
\* JavaScript values are tagged: null, booleans, numbers and strings.
\* Str(0) is the empty string; Str(t) for t >= 1 serves as identifier text
\* and as the ISO timestamp of instant t
Null == <<"null", 0>>
Bool(b) == <<"boolean", IF b THEN 1 ELSE 0>>
Num(n) == <<"number", n>>
Str(n) == <<"string", n>>
\* a non-null object or array
Obj(n) == <<"object", n>>
\* the string that is the JSON text of value v; every other string modelled
\* is not JSON text
Json(v) == <<"json", v>>
\* typeof value === 'string'
IsString(v) == v[1] \in {"string", "json"}

\* JavaScript truthiness (!value is its negation)
Truthy(v) == v \notin {Null, Bool(FALSE), Num(0), Str(0)}

\* ------------------------------------------------------------------------
\* Schema metadata
\* ------------------------------------------------------------------------
\* the tables exercised: people (updated_at tracked, boolean is_living),
\* events (not tracked, boolean recurring), and a name the schema lacks
Tables == {"people", "events"}
MissingTable == "UNIQUE constraint failed"

\* a table that has a JSON column
JsonTable == "contributions"

\* BOOLEAN_COLUMNS[table] ?? none, over the table names the model uses
BOOLEAN_COLUMNS ==
    [t \in Tables \cup {MissingTable, JsonTable} |->
        CASE t = "people" -> {"is_living", "is_patrilineal"}
          [] t = "events" -> {"recurring"}
          [] OTHER -> {}]

\* JSON_COLUMNS[table] ?? none
JSON_COLUMNS ==
    [t \in Tables \cup {MissingTable, JsonTable} |->
        IF t = "contributions" THEN {"changes"} ELSE {}]

TABLES_WITH_UPDATED_AT == {"people", "families", "profiles", "achievements",
                           "clan_articles", "cau_duong_pools",
                           "cau_duong_assignments"}

\* the columns of each table that the model carries
ColumnsOf(t) ==
    CASE t = "people" -> {"id", "created_at", "updated_at", "is_living"}
      [] t = "events" -> {"id", "created_at", "recurring"}
      [] OTHER -> {}

isBooleanColumn(t, column) == column \in BOOLEAN_COLUMNS[t]

\* ------------------------------------------------------------------------
\* Type coercion layer
\* ------------------------------------------------------------------------
\* try { JSON.parse(value) } catch { value }: JSON text parses to its value,
\* any other string makes JSON.parse throw and is kept
JsonParse(v) == IF v[1] = "json" THEN v[2] ELSE v

\* JSON.stringify(value)
JsonStringify(v) == Json(v)

\* coerceRowFromSqlite: boolean columns become true exactly for 1 or true,
\* strings of JSON columns are parsed
coerceRowFromSqlite(t, row) ==
    [key \in DOMAIN row |->
        IF key \in BOOLEAN_COLUMNS[t]
        THEN Bool(row[key] = Num(1) \/ row[key] = Bool(TRUE))
        ELSE IF key \in JSON_COLUMNS[t] /\ IsString(row[key])
        THEN JsonParse(row[key])
        ELSE row[key]]

\* a conversion to storage form that leaves boolean columns as they are
coerceDataToSqliteKeepBoolean(t, data) ==
    [key \in DOMAIN data |->
        IF key \in JSON_COLUMNS[t] /\ data[key][1] = "object"
        THEN JsonStringify(data[key])
        ELSE data[key]]

\* coerceDataToSqlite: boolean columns become 1 for a truthy value, else 0,
\* non-null objects of JSON columns are serialised
coerceDataToSqlite(t, data) ==
    [key \in DOMAIN data |->
        IF key \in BOOLEAN_COLUMNS[t]
        THEN (IF Truthy(data[key]) THEN Num(1) ELSE Num(0))
        ELSE IF key \in JSON_COLUMNS[t] /\ data[key][1] = "object"
        THEN JsonStringify(data[key])
        ELSE data[key]]

\* ------------------------------------------------------------------------
\* Filter builder
\* ------------------------------------------------------------------------
\* coerceFilterValue inside buildWhere
coerceFilterValue(t, column, value) ==
    IF isBooleanColumn(t, column) /\ value = Bool(TRUE) THEN Num(1)
    ELSE IF isBooleanColumn(t, column) /\ value = Bool(FALSE) THEN Num(0)
    ELSE value

\* one condition of the clause: its operator, its column and its number of
\* placeholders; terms is empty except in an OR-group
Condition(op, column, n) == [op |-> op, column |-> column, n |-> n, terms |-> <<>>]

\* `(${orClauses.join(' OR ')})`: one term "column" op ? per part
OrGroup(terms) == [op |-> "OR", column |-> "", n |-> Len(terms), terms |-> terms]

\* ------------------------------------------------------------------------
\* parseOrCondition.  A condition string is the sequence of its pieces: a
\* comma, a period, a blank, or a run of other characters
\* ------------------------------------------------------------------------
\* a string value given by its text
Text(s) == <<"text", s>>

\* String.prototype.split on a one-character separator
RECURSIVE Split(_, _)
Split(s, sep) ==
    IF \A i \in 1..Len(s) : s[i] # sep THEN <<s>>
    ELSE LET at == CHOOSE i \in 1..Len(s) :
                       s[i] = sep /\ \A j \in 1..(i - 1) : s[j] # sep
         IN <<SubSeq(s, 1, at - 1)>> \o Split(SubSeq(s, at + 1, Len(s)), sep)

\* String.prototype.trim
RECURSIVE Trim(_)
Trim(s) ==
    IF s # <<>> /\ Head(s) = " " THEN Trim(Tail(s))
    ELSE IF s # <<>> /\ s[Len(s)] = " " THEN Trim(SubSeq(s, 1, Len(s) - 1))
    ELSE s

\* Array.prototype.join
RECURSIVE Join(_, _)
Join(parts, sep) ==
    IF parts = <<>> THEN <<>>
    ELSE IF Len(parts) = 1 THEN parts[1]
    ELSE parts[1] \o <<sep>> \o Join(Tail(parts), sep)

\* the operator of a code: '=' unless the code is one of the six known;
\* segments is the split part, whose second element may be missing
OrOperator(segments) ==
    IF Len(segments) < 2 THEN "="
    ELSE CASE segments[2] = <<"eq">> -> "="
           [] segments[2] = <<"neq">> -> "!="
           [] segments[2] = <<"gt">> -> ">"
           [] segments[2] = <<"gte">> -> ">="
           [] segments[2] = <<"lt">> -> "<"
           [] segments[2] = <<"lte">> -> "<="
           [] OTHER -> "="

\* a parser that takes the third segment alone as the value
parseOrConditionThirdSegment(condition) ==
    LET parts == Split(condition, ",")
    IN [i \in 1..Len(parts) |->
          LET segments == Split(Trim(parts[i]), ".")
          IN [column |-> segments[1],
              op |-> OrOperator(segments),
              value |-> IF Len(segments) >= 3 THEN segments[3] ELSE <<>>]]

parseOrCondition(condition) ==
    LET parts == Split(condition, ",")
    IN [i \in 1..Len(parts) |->
          LET segments == Split(Trim(parts[i]), ".")
          IN [column |-> segments[1],
              op |-> OrOperator(segments),
              value |-> Join(SubSeq(segments, 3, Len(segments)), ".")]]

\* case 'or': one OR-group and one parameter per part, the value as parsed
OrCondition(f) ==
    LET orParts == parseOrCondition(f.condition)
    IN IF Len(orParts) > 0
       THEN [conds |-> <<OrGroup([i \in 1..Len(orParts) |->
                                    [column |-> orParts[i].column,
                                     op |-> orParts[i].op]])>>,
             params |-> [i \in 1..Len(orParts) |-> Text(orParts[i].value)]]
       ELSE [conds |-> <<>>, params |-> <<>>]

\* the condition and the parameters one filter contributes.  A condition is
\* kept as its operator, its column and its number of placeholders instead
\* of SQL text
\* a set-membership that writes IN (...) for every list, the empty one too
InConditionAlwaysIn(t, f) ==
    [conds |-> <<Condition("IN", f.column, Len(f.value))>>,
     params |-> [i \in 1..Len(f.value) |->
                    coerceFilterValue(t, f.column, f.value[i])]]

\* case 'in': '1 = 0' for an empty list, else IN with one placeholder per
\* value
InCondition(t, f) ==
    IF Len(f.value) = 0
    THEN [conds |-> <<Condition("1 = 0", "", 0)>>,
          params |-> <<>>]
    ELSE [conds |-> <<Condition("IN", f.column, Len(f.value))>>,
          params |-> [i \in 1..Len(f.value) |->
                         coerceFilterValue(t, f.column, f.value[i])]]

FilterCondition(t, f) ==
    CASE f.type = "eq" ->
            [conds |-> <<Condition("=", f.column, 1)>>,
             params |-> <<coerceFilterValue(t, f.column, f.value[1])>>]
      [] f.type = "in" -> InCondition(t, f)
      [] f.type = "is" ->
            IF f.value = <<Null>>
            THEN [conds |-> <<Condition("IS NULL", f.column, 0)>>,
                  params |-> <<>>]
            ELSE [conds |-> <<>>, params |-> <<>>]
      [] f.type = "not" ->
            IF f.operator = "is" /\ f.value = <<Null>>
            THEN [conds |-> <<Condition("IS NOT NULL", f.column, 0)>>,
                  params |-> <<>>]
            ELSE [conds |-> <<Condition("!=", f.column, 1)>>,
                  params |-> <<coerceFilterValue(t, f.column, f.value[1])>>]
      [] f.type = "or" -> OrCondition(f)

\* buildWhere: the conditions are ANDed, the parameters concatenated
RECURSIVE buildWhere(_, _)
buildWhere(filters, t) ==
    IF filters = <<>> THEN [conds |-> <<>>, params |-> <<>>]
    ELSE LET head == FilterCondition(t, Head(filters))
             rest == buildWhere(Tail(filters), t)
         IN [conds |-> head.conds \o rest.conds,
             params |-> head.params \o rest.params]

\* ------------------------------------------------------------------------
\* Engine: evaluation of a compiled predicate on a stored row
\* ------------------------------------------------------------------------
\* statement.bind turns a JavaScript boolean into a number
BindValue(v) == IF v[1] = "boolean" THEN Num(v[2]) ELSE v

\* one condition on a row with its own parameters; a comparison with NULL
\* is not true
CondHolds(row, c, ps) ==
    CASE c.op = "1 = 0" -> FALSE
      [] c.op = "IS NULL" -> row[c.column] = Null
      [] c.op = "IS NOT NULL" -> row[c.column] # Null
      [] c.op = "=" -> row[c.column] # Null /\ ps[1] # Null /\ row[c.column] = ps[1]
      [] c.op = "!=" -> row[c.column] # Null /\ ps[1] # Null /\ row[c.column] # ps[1]
      [] c.op = "IN" -> row[c.column] # Null
                         /\ \E i \in 1..Len(ps) : ps[i] # Null /\ row[c.column] = ps[i]

RECURSIVE WhereHolds(_, _, _)
WhereHolds(row, conds, params) ==
    IF conds = <<>> THEN TRUE
    ELSE LET c == Head(conds) IN
         /\ CondHolds(row, c, SubSeq(params, 1, c.n))
         /\ WhereHolds(row, Tail(conds), SubSeq(params, c.n + 1, Len(params)))

\* ------------------------------------------------------------------------
\* handleRpc / isPersonInSubtree, one step per engine interaction
\* ------------------------------------------------------------------------
\* the graphs the engine may hold: every families table in which nobody is
\* both father and mother of a family, and every children table of at most
\* MaxChildRows rows
Graphs ==
    {g \in [fam : [FamilyKeys -> [father_id : Persons \cup {NoPerson},
                                   mother_id : Persons \cup {NoPerson}]],
            kids : SUBSET (FamilyKeys \X Persons)] :
        /\ Cardinality(g.kids) <= MaxChildRows
        /\ \A f \in FamilyKeys :
              g.fam[f].father_id = g.fam[f].mother_id => g.fam[f].father_id = NoPerson}

\* no query request is being served
QueryIdle ==
    /\ table = "people"
    /\ rows = <<>>
    /\ payload = <<>>
    /\ qPc = "idle"
    /\ idx = 1
    /\ insertedRows = <<>>
    /\ qOpenStmts = {}
    /\ clock = 2
    /\ nextUuid = 1
    /\ caught = [kind |-> "none", isError |-> FALSE, message |-> <<>>]
    /\ mapperCalls = 0
    /\ runLog = <<>>
    /\ rowsAtCall = <<>>
    /\ qOutcome = "none"
    /\ qResult = NoResult

\* no RPC invocation is being served
RpcIdle ==
    /\ families = [f \in FamilyKeys |-> [father_id |-> NoPerson, mother_id |-> NoPerson]]
    /\ children = {}
    /\ functionName = ""
    /\ rootId = NoPerson
    /\ targetId = NoPerson
    /\ rpcPc = "idle"
    /\ visited = {}
    /\ queue = <<>>
    /\ familyIds = <<>>
    /\ childCursor = {}
    /\ openStmts = {}
    /\ engineCalls = 0
    /\ expanded = <<>>
    /\ rpcOutcome = "none"
    /\ rpcResult = NoResult

\* no coercion has been asked for
CoerceIdle ==
    /\ coerceTable = "people"
    /\ coerceSteps = <<>>

\* buildWhere is not being called
WhereIdle ==
    /\ whereTable = "people"
    /\ whereFilters = <<>>
    /\ whereResult = <<>>

FnIdle == CoerceIdle /\ WhereIdle

\* the invocations explored: every pair of present parameters, each way of
\* leaving a parameter out, and an unknown function name
RpcRequests ==
    ({"is_person_in_subtree"} \X Persons \X Persons)
      \cup {<<"is_person_in_subtree", NoPerson, 1>>,
            <<"is_person_in_subtree", 1, NoPerson>>,
            <<"is_person_in_subtree", NoPerson, NoPerson>>,
            <<"no_such_function", 1, 2>>}

RpcInit ==
    /\ QueryIdle
    /\ FnIdle
    /\ \E g \in Graphs : families = g.fam /\ children = g.kids
    /\ \E r \in RpcRequests :
          functionName = r[1] /\ rootId = r[2] /\ targetId = r[3]
    /\ rpcPc = "call"
    /\ visited = {}
    /\ queue = <<>>
    /\ familyIds = <<>>
    /\ childCursor = {}
    /\ openStmts = {}
    /\ engineCalls = 0
    /\ expanded = <<>>
    /\ rpcOutcome = "none"
    /\ rpcResult = NoResult

\* return from handleRpc with a result
RpcReturn(data, error) ==
    /\ rpcPc' = "done"
    /\ rpcOutcome' = "returned"
    /\ rpcResult' = [data |-> data, error |-> error]

\* an exception leaves handleRpc: neither isPersonInSubtree nor handleRpc
\* has a catch clause.  The locals of isPersonInSubtree go with its frame
RpcThrow ==
    /\ rpcPc' = "done"
    /\ rpcOutcome' = "threw"
    /\ rpcResult' = NoResult
    /\ visited' = {}
    /\ queue' = <<>>
    /\ familyIds' = <<>>
    /\ childCursor' = {}

\* a validation that looks at root_id alone
MissingParamsRootOnly(root, target) == root = NoPerson

\* if (!rootId || !targetId)
MissingParams(root, target) == root = NoPerson \/ target = NoPerson

\* handleRpc up to the call of isPersonInSubtree, and the rootId === targetId
\* shortcut of isPersonInSubtree
HandleRpc ==
    /\ rpcPc = "call"
    /\ UNCHANGED <<queryVars, fnVars>>
    /\ UNCHANGED <<families, children, functionName, rootId, targetId,
                   visited, familyIds, childCursor, openStmts, engineCalls,
                   expanded>>
    /\ IF functionName # "is_person_in_subtree"
       THEN /\ RpcReturn(NullData, ErrorOf(<<"Unknown RPC function: ", functionName>>, ""))
            /\ UNCHANGED queue
       ELSE IF MissingParams(rootId, targetId)
       THEN /\ RpcReturn(NullData, ErrorOf(<<"Missing root_id or target_id">>, ""))
            /\ UNCHANGED queue
       ELSE IF rootId = targetId
       THEN /\ RpcReturn(BoolData(TRUE), NoError)
            /\ UNCHANGED queue
       ELSE /\ rpcPc' = "prepare"
            /\ queue' = <<rootId>>
            /\ UNCHANGED <<rpcOutcome, rpcResult>>

\* db.prepare(familyStmt); db.prepare(childStmt): both before the try block.
\* fail = 0: both succeed; 1: the first prepare throws; 2: the second throws
PrepareStmts(fail) ==
    /\ rpcPc = "prepare"
    /\ UNCHANGED <<queryVars, fnVars>>
    /\ UNCHANGED <<families, children, functionName, rootId, targetId, expanded>>
    /\ CASE fail = 0 -> /\ openStmts' = {"familyStmt", "childStmt"}
                        /\ engineCalls' = engineCalls + 2
                        /\ rpcPc' = "loop"
                        /\ UNCHANGED <<visited, queue, familyIds, childCursor,
                                       rpcOutcome, rpcResult>>
         [] fail = 1 -> /\ openStmts' = {}
                        /\ engineCalls' = engineCalls + 1
                        /\ RpcThrow
         [] fail = 2 -> /\ openStmts' = {"familyStmt"}
                        /\ engineCalls' = engineCalls + 2
                        /\ RpcThrow

\* finally { familyStmt.free(); childStmt.free(); }
Finally == openStmts' = openStmts \ {"familyStmt", "childStmt"}

\* the visited check skipped
AlreadyVisitedNever(p) == FALSE

\* if (visited.has(currentId)) continue;
AlreadyVisited(p) == p \in visited

\* one turn of the outer while loop up to the family query: shift, visited
\* check, visited.add, bind and step familyStmt.  order is the order in
\* which the engine returns the families
Dequeue(fail, order) ==
    /\ rpcPc = "loop"
    /\ UNCHANGED <<queryVars, fnVars>>
    /\ UNCHANGED <<families, children, functionName, rootId, targetId, engineCalls>>
    /\ IF queue = <<>>
       THEN /\ fail = FALSE /\ order = <<>>
            /\ Finally
            /\ RpcReturn(BoolData(FALSE), NoError)
            /\ UNCHANGED <<visited, queue, familyIds, childCursor, expanded>>
       ELSE LET currentId == Head(queue) IN
            IF AlreadyVisited(currentId)
            THEN /\ fail = FALSE /\ order = <<>>
                 /\ queue' = Tail(queue)
                 /\ UNCHANGED <<visited, familyIds, childCursor, expanded, openStmts,
                                rpcPc, rpcOutcome, rpcResult>>
            ELSE /\ expanded' = Append(expanded, currentId)
                 /\ IF fail
                    THEN /\ order = <<>>
                         /\ Finally
                         /\ RpcThrow
                    ELSE /\ order \in SeqsOf(FamilyQuery(currentId))
                         /\ queue' = Tail(queue)
                         /\ visited' = visited \cup {currentId}
                         /\ familyIds' = order
                         /\ rpcPc' = "families"
                         /\ UNCHANGED <<childCursor, openStmts, rpcOutcome, rpcResult>>

\* for (const familyId of familyIds): childStmt.bind([familyId])
NextFamily(fail) ==
    /\ rpcPc = "families"
    /\ UNCHANGED <<queryVars, fnVars>>
    /\ UNCHANGED <<families, children, functionName, rootId, targetId,
                   expanded, engineCalls>>
    /\ IF familyIds = <<>>
       THEN /\ fail = FALSE
            /\ rpcPc' = "loop"
            /\ UNCHANGED <<visited, queue, familyIds, childCursor, openStmts,
                           rpcOutcome, rpcResult>>
       ELSE IF fail
       THEN /\ Finally
            /\ RpcThrow
       ELSE /\ familyIds' = Tail(familyIds)
            /\ childCursor' = ChildQuery(Head(familyIds))
            /\ rpcPc' = "children"
            /\ UNCHANGED <<visited, queue, openStmts, rpcOutcome, rpcResult>>

\* while (childStmt.step()) { ... }: one step of the inner loop; row is the
\* row the engine returns, <<0, 0>> when there is none
ChildStep(fail, row) ==
    /\ rpcPc = "children"
    /\ UNCHANGED <<queryVars, fnVars>>
    /\ UNCHANGED <<families, children, functionName, rootId, targetId,
                   expanded, engineCalls>>
    /\ IF fail
       THEN /\ row = <<0, 0>>
            /\ Finally
            /\ RpcThrow
       ELSE IF childCursor = {}
       THEN /\ row = <<0, 0>>
            /\ rpcPc' = "families"
            /\ UNCHANGED <<visited, queue, familyIds, childCursor, openStmts,
                           rpcOutcome, rpcResult>>
       ELSE /\ row \in childCursor
            /\ childCursor' = childCursor \ {row}
            /\ UNCHANGED <<visited, familyIds>>
            /\ LET childId == row[2] IN
               IF childId = targetId
               THEN /\ Finally
                    /\ RpcReturn(BoolData(TRUE), NoError)
                    /\ UNCHANGED queue
               ELSE /\ queue' = IF childId \notin visited
                                THEN Append(queue, childId) ELSE queue
                    /\ UNCHANGED <<openStmts, rpcPc, rpcOutcome, rpcResult>>

RpcNext ==
    \/ HandleRpc
    \/ \E fail \in 0..2 : PrepareStmts(fail)
    \/ \E fail \in BOOLEAN, order \in UNION {SeqsOf(S) : S \in SUBSET FamilyKeys} :
          Dequeue(fail, order)
    \/ \E fail \in BOOLEAN : NextFamily(fail)
    \/ \E fail \in BOOLEAN, row \in children \cup {<<0, 0>>} : ChildStep(fail, row)

RpcSpec == RpcInit /\ [][RpcNext]_vars

\* the call runs synchronously to completion: every step of it is taken
RpcLiveSpec == RpcSpec /\ WF_vars(RpcNext)

\* ------------------------------------------------------------------------
\* Properties of the subtree traversal
\* ------------------------------------------------------------------------
\* children of p: persons listed in a family where p is father or mother
Kids(p) ==
    {c \in Persons : \E f \in FamilyKeys :
        /\ (families[f].father_id = p \/ families[f].mother_id = p)
        /\ <<f, c>> \in children}

RECURSIVE Closure(_, _)
Closure(S, n) ==
    IF n = 0 THEN S
    ELSE Closure(S \cup UNION {Kids(p) : p \in S}, n - 1)

\* persons reachable from p by one or more parent -> family -> child steps
Descendants(p) == Closure(Kids(p), Cardinality(Persons))

TraversalRan ==
    /\ rpcPc = "done"
    /\ rpcOutcome = "returned"
    /\ rpcResult.data.tag = "bool"

\* C1: whenever is_person_in_subtree(root, target) returns, it returns true
\* exactly when root equals target or target is reachable from root by one
\* or more parent -> family -> child steps, and false otherwise
C1_SubtreeIffReachable ==
    TraversalRan =>
        (rpcResult.data.val <=> (rootId = targetId \/ targetId \in Descendants(rootId)))

\* a call that found the target two or more generations below the root
C1_Witness ==
    /\ TraversalRan
    /\ rpcResult.data.val = TRUE
    /\ rootId # targetId
    /\ targetId \notin Kids(rootId)
    /\ Len(expanded) >= 2

NoRepeat(s) == \A i, j \in 1..Len(s) : s[i] = s[j] => i = j

\* C2: the traversal terminates on every family graph, cycles and children
\* of several families included; no person is expanded twice; and when the
\* target is not reachable the call that returns does so with false, the
\* work queue being empty
C2_TerminatesOnAnyGraph ==
    /\ <>(rpcPc = "done")
    /\ [](NoRepeat(expanded))
    /\ []((TraversalRan /\ rootId # targetId /\ targetId \notin Descendants(rootId))
             => (rpcResult.data.val = FALSE /\ queue = <<>>))

\* a traversal that ended with false on a graph where the root is its own
\* descendant and some person is a child of two families
C2_Witness ==
    /\ TraversalRan
    /\ rpcResult.data.val = FALSE
    /\ rootId \in Descendants(rootId)
    /\ \E c \in Persons : \A f \in FamilyKeys : <<f, c>> \in children
    /\ Len(expanded) >= 2

\* C4: an RPC invocation never ends abnormally: it always returns the
\* uniform result, and an engine failure is returned as its error field
C4_RpcNeverThrows ==
    rpcPc = "done" => rpcOutcome = "returned"


\* ------------------------------------------------------------------------
\* Bounds of the query requests explored
\* ------------------------------------------------------------------------
MaxRows == 2
MaxRecords == 2
MaxClock == 3

\* ------------------------------------------------------------------------
\* Engine failures and the catch clause of executeQuery
\* ------------------------------------------------------------------------
UniqueText == "UNIQUE constraint failed"

\* values thrown inside executeQuery: sql.js throws an Error carrying the
\* engine's message, bind throws a plain string for a value it cannot bind,
\* and the runtime throws a TypeError
\* (kind records what failed; the code never sees it)
Thrown(kind, isError, message) ==
    [kind |-> kind, isError |-> isError, message |-> message]
UniqueFailure(t) == Thrown("unique", TRUE, <<UniqueText, ": ", t, ".id">>)
NoSuchTable(t) == Thrown("no such table", TRUE, <<"no such table: ", t>>)
NoSuchColumn(c) == Thrown("no such column", TRUE, <<"no such column: ", c>>)
SyntaxFailure == Thrown("syntax", TRUE, <<"incomplete input">>)
IoFailure == Thrown("io", TRUE, <<"disk I/O error">>)
BindFailure == Thrown("bind", FALSE, <<"Wrong API use : tried to bind a value of an unknown type">>)
TypeFailure == Thrown("type", TRUE, <<"Cannot convert undefined or null to object">>)
NothingCaught == Thrown("none", FALSE, <<>>)

\* String.prototype.includes on a message kept as its parts
Includes(msg, part) == \E i \in 1..Len(msg) : msg[i] = part

\* error-mapper: sqliteError passes the message through
sqliteError(err) == ErrorOf(err.message, "")

\* error-mapper: notFoundError carries a stable code
notFoundError == ErrorOf(<<"Row not found">>, "PGRST116")

\* the substring test skipped: every failure goes to the mapper
IsUniqueViolationNever(err) == FALSE

\* const msg = err instanceof Error ? err.message : '';
\* msg.includes('UNIQUE constraint failed')
IsUniqueViolation(err) ==
    LET msg == IF err.isError THEN err.message ELSE <<>>
    IN Includes(msg, UniqueText)

\* a catch clause that lets values that are not Errors go on
CatchErrorsOnly(err) ==
    /\ qPc' = "done"
    /\ caught' = err
    /\ IF ~err.isError
       THEN /\ qOutcome' = "threw"
            /\ qResult' = NoResult
            /\ UNCHANGED mapperCalls
       ELSE /\ qOutcome' = "returned"
            /\ qResult' = [data |-> NullData, error |-> sqliteError(err)]
            /\ mapperCalls' = mapperCalls + 1

\* catch (err) { ... } of executeQuery
Catch(err) ==
    /\ qPc' = "done"
    /\ qOutcome' = "returned"
    /\ caught' = err
    /\ IF IsUniqueViolation(err)
       THEN /\ qResult' = [data |-> NullData,
                           error |-> ErrorOf(err.message, "23505")]
            /\ UNCHANGED mapperCalls
       ELSE /\ qResult' = [data |-> NullData, error |-> sqliteError(err)]
            /\ mapperCalls' = mapperCalls + 1

\* return of a handler through executeQuery
Return(data, error) ==
    /\ qPc' = "done"
    /\ qOutcome' = "returned"
    /\ qResult' = [data |-> data, error |-> error]
    /\ UNCHANGED <<caught, mapperCalls>>

\* ------------------------------------------------------------------------
\* The requests and the stored tables explored
\* ------------------------------------------------------------------------
BoolColumn(t) == IF t = "people" THEN "is_living" ELSE "recurring"

\* the values a caller gives a column of a body
BodyValues(c) ==
    CASE c = "id" -> {Str(0), Str(1), Str(2)}
      [] c = "created_at" -> {Str(0), Str(1)}
      [] c = "updated_at" -> {Str(0), Str(1)}
      [] OTHER -> {Bool(TRUE), Bool(FALSE)}

AllBodyValues == UNION {BodyValues(c) : c \in {"id", "created_at", "updated_at", "is_living"}}

\* records over any subset of the given columns
RecordsOver(cols) ==
    UNION {{b \in [S -> AllBodyValues] : \A c \in S : b[c] \in BodyValues(c)} :
           S \in SUBSET cols}

\* a body may name updated_at also on a table that has no such column
Bodies(t) == RecordsOver(ColumnsOf(t) \cup {"updated_at"})

\* the records of a multi-record insert carry at most an identifier
BatchRecords == RecordsOver({"id"})

SeqsUpTo(S, n) == UNION {[1..k -> S] : k \in 0..n}

\* a scalar filter value is kept as a one-element list
Filters(t) ==
    {[type |-> "eq", column |-> "id", operator |-> "", condition |-> <<>>,
      value |-> <<Str(1)>>],
     [type |-> "eq", column |-> BoolColumn(t), operator |-> "", condition |-> <<>>,
      value |-> <<Bool(TRUE)>>],
     [type |-> "in", column |-> "id", operator |-> "", condition |-> <<>>,
      value |-> <<>>],
     [type |-> "in", column |-> "id", operator |-> "", condition |-> <<>>,
      value |-> <<Str(1), Str(2)>>],
     [type |-> "is", column |-> "id", operator |-> "", condition |-> <<>>,
      value |-> <<Null>>],
     [type |-> "is", column |-> BoolColumn(t), operator |-> "", condition |-> <<>>,
      value |-> <<Bool(TRUE)>>],
     [type |-> "not", column |-> "id", operator |-> "eq", condition |-> <<>>,
      value |-> <<Str(1)>>],
     [type |-> "not", column |-> BoolColumn(t), operator |-> "is", condition |-> <<>>,
      value |-> <<Null>>]}

\* the filter lists of reads and deletes: up to one filter, and every filter
\* followed by a boolean equality or by an empty set-membership
FilterLists(t) ==
    SeqsUpTo(Filters(t), 1)
      \cup {<<f, g>> : f \in Filters(t),
                       g \in {h \in Filters(t) : \/ (h.type = "in" /\ h.value = <<>>)
                                                  \/ (h.type = "eq" /\ h.column # "id")}}

\* the bodies of updates
UpdateBodies(t) ==
    {b \in Bodies(t) : \A c \in DOMAIN b : c = "id" \/ Truthy(b[c]) \/ b[c] = Bool(FALSE)}

Payload(method, columns, body, isArray, filters, order, limit, single, maybeSingle) ==
    [method |-> method, columns |-> columns, body |-> body, isArray |-> isArray,
     filters |-> filters, order |-> order, limit |-> limit,
     single |-> single, maybeSingle |-> maybeSingle]

\* columns: "" when no projection is requested; limit: -1 when absent;
\* order: "" when absent, else the direction of an ordering by id
SelectPayloads(t) ==
    {Payload("select", c, <<>>, FALSE, fs, o, l, sm[1], sm[2]) :
        c \in {"", "*", "id"}, fs \in FilterLists(t),
        o \in {"", "DESC"}, l \in {-1, 0, 1},
        sm \in {<<FALSE, FALSE>>, <<TRUE, FALSE>>, <<FALSE, TRUE>>}}

InsertPayloads(t) ==
    {Payload("insert", cs[1], <<b>>, FALSE, <<>>, "", -1, cs[2], FALSE) :
        cs \in {<<"", FALSE>>, <<"*", FALSE>>, <<"*", TRUE>>}, b \in Bodies(t)}
    \cup
    {Payload("insert", cs[1], bs, TRUE, <<>>, "", -1, cs[2], FALSE) :
        cs \in {<<"", FALSE>>, <<"*", FALSE>>, <<"*", TRUE>>},
        bs \in SeqsUpTo(BatchRecords, MaxRecords)}

UpdatePayloads(t) ==
    {Payload("update", cs[1], <<b>>, FALSE, fs, "", -1, cs[2], FALSE) :
        cs \in {<<"", FALSE>>, <<"*", FALSE>>, <<"*", TRUE>>},
        b \in UpdateBodies(t), fs \in SeqsUpTo(Filters(t), 1)}
    \cup
    {Payload("update", "*", bs, TRUE, <<>>, "", -1, FALSE, FALSE) :
        bs \in SeqsUpTo(BatchRecords, 1)}

DeletePayloads(t) ==
    {Payload("delete", "", <<>>, FALSE, fs, "", -1, FALSE, FALSE) :
        fs \in FilterLists(t)}

OtherPayloads ==
    {Payload("upsert", "", <<>>, FALSE, <<>>, "", -1, FALSE, FALSE)}

\* requests on a table the schema lacks
MissingTablePayloads ==
    {Payload(m, "*", <<[id |-> Str(1)]>>, FALSE, <<>>, "", -1, FALSE, FALSE) :
        m \in {"select", "insert", "update", "delete"}}

\* the stored rows of table t: every column of the table, written at
\* instant 1, the boolean column as 1 on odd and 0 on even identifiers
StoredRows(t) ==
    {[c \in ColumnsOf(t) |->
         CASE c = "id" -> Str(i)
           [] c \in {"created_at", "updated_at"} -> Str(1)
           [] OTHER -> Num(i % 2)] : i \in 1..MaxRows}

\* the tables the engine may hold: identifiers are unique
StoredTables(t) ==
    {rs \in SeqsUpTo(StoredRows(t), MaxRows) :
        \A i, j \in 1..Len(rs) : rs[i].id = rs[j].id => i = j}

QueryInit ==
    /\ RpcIdle
    /\ FnIdle
    /\ \/ /\ table \in Tables
          /\ rows \in StoredTables(table)
          /\ payload \in SelectPayloads(table) \cup InsertPayloads(table)
                           \cup UpdatePayloads(table) \cup DeletePayloads(table)
                           \cup OtherPayloads
       \/ /\ table = MissingTable
          /\ rows = <<>>
          /\ payload \in MissingTablePayloads
    /\ qPc = "call"
    /\ idx = 1
    /\ insertedRows = <<>>
    /\ qOpenStmts = {}
    /\ clock = 2
    /\ nextUuid = 1
    /\ caught = NothingCaught
    /\ mapperCalls = 0
    /\ runLog = <<>>
    /\ rowsAtCall = rows
    /\ qOutcome = "none"
    /\ qResult = NoResult

\* ------------------------------------------------------------------------
\* executeSelect
\* ------------------------------------------------------------------------
\* the projection: every column, or only id
Project(row, columns) ==
    IF columns \in {"", "*"} THEN row ELSE [c \in {"id"} |-> row[c]]

\* the rows of rs that satisfy a compiled predicate, in stored order
Matching(rs, where) ==
    LET Test(r) == WhereHolds(r, where.conds, where.params)
    IN SelectSeq(rs, Test)

\* ORDER BY "id" ASC | DESC over rows with distinct text identifiers
RECURSIVE OrderById(_, _)
OrderById(rs, dir) ==
    IF rs = <<>> THEN <<>>
    ELSE LET first == CHOOSE i \in 1..Len(rs) : \A j \in 1..Len(rs) :
                          IF dir = "DESC" THEN rs[i].id[2] >= rs[j].id[2]
                                          ELSE rs[i].id[2] <= rs[j].id[2]
             others == [k \in 1..(Len(rs) - 1) |-> IF k < first THEN rs[k] ELSE rs[k + 1]]
         IN <<rs[first]>> \o OrderById(others, dir)

\* the rows the SELECT statement of executeSelect returns, coerced
SelectRows(t, rs, pl) ==
    LET matched == Matching(rs, buildWhere(pl.filters, t))
        ordered == IF pl.order = "" THEN matched ELSE OrderById(matched, pl.order)
        \* if (payload.limit): an absent limit and a limit of 0 add no LIMIT
        limited == IF pl.limit # -1 /\ pl.limit # 0 /\ pl.limit < Len(ordered)
                   THEN SubSeq(ordered, 1, pl.limit) ELSE ordered
    IN [i \in 1..Len(limited) |-> coerceRowFromSqlite(t, Project(limited[i], pl.columns))]

\* a single read that hands back the rows as a sequence
SelectResultAsRows(pl, rs) ==
    IF pl.single /\ rs = <<>>
    THEN [data |-> NullData, error |-> notFoundError]
    ELSE [data |-> RowsData(rs), error |-> NoError]

\* the result executeSelect builds from the rows read
SelectResult(pl, rs) ==
    IF pl.single
    THEN IF rs = <<>>
         THEN [data |-> NullData, error |-> notFoundError]
         ELSE [data |-> RowData(rs[1]), error |-> NoError]
    ELSE IF pl.maybeSingle
    THEN [data |-> IF rs # <<>> THEN RowData(rs[1]) ELSE NullData, error |-> NoError]
    ELSE [data |-> RowsData(rs), error |-> NoError]

\* fail names the engine call that throws: "" (none), "prepare", "bind"
\* (a parameter of a type bind does not take), "step"
ExecuteSelect(fail) ==
    /\ qPc = "call"
    /\ payload.method = "select"
    /\ UNCHANGED <<rpcVars, fnVars>>
    /\ UNCHANGED <<table, rows, payload, idx, insertedRows, clock, nextUuid,
                   runLog, rowsAtCall>>
    /\ IF table \notin Tables
       THEN /\ fail = ""
            /\ Catch(NoSuchTable(table))
            /\ UNCHANGED qOpenStmts
       ELSE CASE fail = "prepare" -> Catch(IoFailure) /\ UNCHANGED qOpenStmts
              [] fail = "bind" -> /\ buildWhere(payload.filters, table).params # <<>>
                                  /\ Catch(BindFailure)
                                  /\ qOpenStmts' = qOpenStmts \cup {"stmt"}
              [] fail = "step" -> /\ Catch(IoFailure)
                                  /\ qOpenStmts' = qOpenStmts \cup {"stmt"}
              [] OTHER -> /\ fail = ""
                          /\ LET r == SelectResult(payload, SelectRows(table, rows, payload))
                             IN Return(r.data, r.error)
                          /\ UNCHANGED qOpenStmts

\* ------------------------------------------------------------------------
\* executeInsert
\* ------------------------------------------------------------------------
Has(rec, c) == c \in DOMAIN rec

\* !coerced.c : the key is missing or its value is falsy
Lacks(rec, c) == ~Has(rec, c) \/ ~Truthy(rec[c])

\* the modification timestamp stamped only together with the creation one
InsertDataUpdatedWithCreated(t, record, uuid, now) ==
    LET coerced == coerceDataToSqlite(t, record)
        stampUpdated == t \in TABLES_WITH_UPDATED_AT /\ Lacks(coerced, "updated_at")
                        /\ Lacks(coerced, "created_at")
    IN [c \in DOMAIN coerced \cup {"id", "created_at"}
                \cup (IF stampUpdated THEN {"updated_at"} ELSE {}) |->
          CASE c = "id" /\ Lacks(coerced, "id") -> uuid
            [] c = "created_at" /\ Lacks(coerced, "created_at") -> Str(now)
            [] c = "updated_at" /\ stampUpdated -> Str(now)
            [] OTHER -> coerced[c]]

\* the record handed to INSERT: coerced, with id, created_at and (on a
\* tracked table) updated_at filled in where they are missing or falsy
InsertData(t, record, uuid, now) ==
    LET coerced == coerceDataToSqlite(t, record)
        stampUpdated == t \in TABLES_WITH_UPDATED_AT /\ Lacks(coerced, "updated_at")
    IN [c \in DOMAIN coerced \cup {"id", "created_at"}
                \cup (IF stampUpdated THEN {"updated_at"} ELSE {}) |->
          CASE c = "id" /\ Lacks(coerced, "id") -> uuid
            [] c = "created_at" /\ Lacks(coerced, "created_at") -> Str(now)
            [] c = "updated_at" /\ stampUpdated -> Str(now)
            [] OTHER -> coerced[c]]

\* generateUUID: an identifier no caller supplies and no row carries
generateUUID(n) == Str(100 + n)

\* the row INSERT stores: columns not named are NULL
StoredRow(t, data) ==
    [c \in ColumnsOf(t) |-> IF Has(data, c) THEN BindValue(data[c]) ELSE Null]

\* the failure of db.run(INSERT ...), if any
InsertFailure(t, rs, data) ==
    IF t \notin Tables THEN NoSuchTable(t)
    ELSE IF ~(DOMAIN data \subseteq ColumnsOf(t))
    THEN NoSuchColumn(CHOOSE c \in DOMAIN data : c \notin ColumnsOf(t))
    ELSE IF \E i \in 1..Len(rs) : rs[i].id = data.id THEN UniqueFailure(t)
    ELSE NothingCaught

Records == payload.body

\* a failed statement undoing the statements that ran before it
AfterFailedRunRolledBack(rs, atCall) == atCall

\* db.run outside any transaction: when a statement fails, the rows stored
\* by the statements before it stay
AfterFailedRun(rs, atCall) == rs

\* one turn of the insert loop.  fail: "" (none), "run", or the call on
\* returnStmt that throws ("prepare", "bind", "step"); now: what
\* new Date() returns
InsertRecord(fail, now) ==
    /\ qPc = "call"
    /\ payload.method = "insert"
    /\ idx <= Len(Records)
    /\ now >= clock
    /\ UNCHANGED <<rpcVars, fnVars>>
    /\ UNCHANGED <<table, payload, rowsAtCall>>
    /\ LET record == Records[idx]
           data == InsertData(table, record, generateUUID(nextUuid), now)
           failure == IF fail = "run" THEN IoFailure ELSE InsertFailure(table, rows, data)
           stored == StoredRow(table, data)
       IN /\ clock' = now
          /\ nextUuid' = IF Lacks(coerceDataToSqlite(table, record), "id")
                         THEN nextUuid + 1 ELSE nextUuid
          /\ IF failure.kind # "none"
             THEN /\ fail \in {"", "run"}
                  /\ Catch(failure)
                  /\ rows' = AfterFailedRun(rows, rowsAtCall)
                  /\ UNCHANGED <<idx, insertedRows, qOpenStmts, runLog>>
             ELSE /\ rows' = Append(rows, stored)
                  /\ runLog' = Append(runLog, [index |-> idx, now |-> now, row |-> stored])
                  /\ IF payload.columns = ""
                     THEN /\ fail = ""
                          /\ idx' = idx + 1
                          /\ UNCHANGED <<insertedRows, qOpenStmts, qPc, qOutcome,
                                         qResult, caught, mapperCalls>>
                     ELSE CASE fail = "prepare" ->
                                  /\ Catch(IoFailure)
                                  /\ UNCHANGED <<idx, insertedRows, qOpenStmts>>
                            [] fail = "bind" ->
                                  /\ Catch(BindFailure)
                                  /\ qOpenStmts' = qOpenStmts \cup {"returnStmt"}
                                  /\ UNCHANGED <<idx, insertedRows>>
                            [] fail = "step" ->
                                  /\ Catch(IoFailure)
                                  /\ qOpenStmts' = qOpenStmts \cup {"returnStmt"}
                                  /\ UNCHANGED <<idx, insertedRows>>
                            [] OTHER ->
                                  /\ fail = ""
                                  /\ idx' = idx + 1
                                  /\ insertedRows' = Append(insertedRows,
                                        coerceRowFromSqlite(table, Project(stored, payload.columns)))
                                  /\ UNCHANGED <<qOpenStmts, qPc, qOutcome, qResult,
                                                 caught, mapperCalls>>

\* the return of executeInsert after the loop
InsertFinish ==
    /\ qPc = "call"
    /\ payload.method = "insert"
    /\ idx > Len(Records)
    /\ UNCHANGED <<rpcVars, fnVars>>
    /\ UNCHANGED <<table, rows, payload, idx, insertedRows, qOpenStmts, clock,
                   nextUuid, runLog, rowsAtCall>>
    /\ IF payload.single /\ Len(insertedRows) > 0
       THEN Return(RowData(insertedRows[1]), NoError)
       ELSE Return(IF payload.columns # "" THEN RowsData(insertedRows) ELSE NullData,
                   NoError)

\* ------------------------------------------------------------------------
\* executeUpdate
\* ------------------------------------------------------------------------
\* the assignments when updated_at is stamped only if the body lacks it
UpdateDataKeepSupplied(t, rawBody, now) ==
    LET data == coerceDataToSqlite(t, rawBody)
        stamp == t \in TABLES_WITH_UPDATED_AT /\ ~Has(data, "updated_at")
    IN [c \in DOMAIN data \cup (IF stamp THEN {"updated_at"} ELSE {}) |->
          IF c = "updated_at" /\ stamp THEN Str(now) ELSE data[c]]

\* the assignments of the SET clause: the coerced body, with updated_at set
\* to the current time on a table that tracks it
UpdateData(t, rawBody, now) ==
    LET data == coerceDataToSqlite(t, rawBody)
        tracked == t \in TABLES_WITH_UPDATED_AT
    IN [c \in DOMAIN data \cup (IF tracked THEN {"updated_at"} ELSE {}) |->
          IF c = "updated_at" /\ tracked THEN Str(now) ELSE data[c]]

\* the positions of the rows a compiled predicate selects
MatchingIndexes(rs, where) ==
    {i \in 1..Len(rs) : WhereHolds(rs[i], where.conds, where.params)}

\* the table after UPDATE ... SET data WHERE where
UpdatedRows(rs, data, where) ==
    [i \in 1..Len(rs) |->
        IF i \in MatchingIndexes(rs, where)
        THEN [c \in DOMAIN rs[i] |-> IF Has(data, c) THEN BindValue(data[c]) ELSE rs[i][c]]
        ELSE rs[i]]

\* the failure of db.run(UPDATE ...), if any
UpdateFailure(t, rs, data, where) ==
    IF t \notin Tables THEN NoSuchTable(t)
    ELSE IF DOMAIN data = {} THEN SyntaxFailure
    ELSE IF ~(DOMAIN data \subseteq ColumnsOf(t))
    THEN NoSuchColumn(CHOOSE c \in DOMAIN data : c \notin ColumnsOf(t))
    ELSE LET after == UpdatedRows(rs, data, where) IN
         IF \E i, j \in 1..Len(after) : i # j /\ after[i].id = after[j].id
         THEN UniqueFailure(t)
         ELSE NothingCaught

\* fail: "" (none), "run", or the call on the re-select statement that
\* throws ("prepare", "bind", "step"); now: what new Date() returns
ExecuteUpdate(fail, now) ==
    /\ qPc = "call"
    /\ payload.method = "update"
    /\ now >= clock
    /\ UNCHANGED <<rpcVars, fnVars>>
    /\ UNCHANGED <<table, payload, idx, insertedRows, nextUuid, rowsAtCall>>
    /\ IF payload.isArray /\ payload.body = <<>>
       THEN \* payload.body[0] is undefined: Object.entries throws
            /\ fail = "" /\ now = clock
            /\ Catch(TypeFailure)
            /\ UNCHANGED <<rows, qOpenStmts, clock, runLog>>
       ELSE LET rawBody == payload.body[1]
                data == UpdateData(table, rawBody, now)
                where == buildWhere(payload.filters, table)
                failure == IF fail = "run" THEN IoFailure
                           ELSE UpdateFailure(table, rows, data, where)
                after == UpdatedRows(rows, data, where)
                read == [i \in 1..Len(Matching(after, where)) |->
                            coerceRowFromSqlite(table,
                                Project(Matching(after, where)[i], payload.columns))]
            IN /\ IF table \in TABLES_WITH_UPDATED_AT
                  THEN clock' = now ELSE (now = clock /\ UNCHANGED clock)
               /\ IF failure.kind # "none"
                  THEN /\ fail \in {"", "run"}
                       /\ Catch(failure)
                       /\ UNCHANGED <<rows, qOpenStmts, runLog>>
                  ELSE /\ rows' = after
                       /\ runLog' = Append(runLog, [index |-> 1, now |-> now, row |-> data])
                       /\ IF payload.columns = ""
                          THEN /\ fail = ""
                               /\ Return(NullData, NoError)
                               /\ UNCHANGED qOpenStmts
                          ELSE CASE fail = "prepare" ->
                                       Catch(IoFailure) /\ UNCHANGED qOpenStmts
                                 [] fail = "bind" ->
                                       /\ where.params # <<>>
                                       /\ Catch(BindFailure)
                                       /\ qOpenStmts' = qOpenStmts \cup {"stmt"}
                                 [] fail = "step" ->
                                       /\ Catch(IoFailure)
                                       /\ qOpenStmts' = qOpenStmts \cup {"stmt"}
                                 [] OTHER ->
                                       /\ fail = ""
                                       /\ UNCHANGED qOpenStmts
                                       /\ IF payload.single
                                          THEN Return(IF read # <<>> THEN RowData(read[1])
                                                      ELSE NullData, NoError)
                                          ELSE Return(RowsData(read), NoError)

\* ------------------------------------------------------------------------
\* executeDelete and the default branch
\* ------------------------------------------------------------------------
ExecuteDelete(fail) ==
    /\ qPc = "call"
    /\ payload.method = "delete"
    /\ UNCHANGED <<rpcVars, fnVars>>
    /\ UNCHANGED <<table, payload, idx, insertedRows, qOpenStmts, clock, nextUuid,
                   runLog, rowsAtCall>>
    /\ LET where == buildWhere(payload.filters, table)
           Keep(r) == ~WhereHolds(r, where.conds, where.params)
       IN IF table \notin Tables
          THEN fail = "" /\ Catch(NoSuchTable(table)) /\ UNCHANGED rows
          ELSE IF fail = "run"
          THEN Catch(IoFailure) /\ UNCHANGED rows
          ELSE /\ fail = ""
               /\ rows' = SelectSeq(rows, Keep)
               /\ Return(NullData, NoError)

\* default: return { data: null, error: { message: `Unknown method: ...` } }
UnknownMethod ==
    /\ qPc = "call"
    /\ payload.method \notin {"select", "insert", "update", "delete"}
    /\ UNCHANGED <<rpcVars, fnVars>>
    /\ UNCHANGED <<table, rows, payload, idx, insertedRows, qOpenStmts, clock,
                   nextUuid, runLog, rowsAtCall>>
    /\ Return(NullData, ErrorOf(<<"Unknown method: ", payload.method>>, ""))

QueryNext ==
    \/ \E fail \in {"", "prepare", "bind", "step"} : ExecuteSelect(fail)
    \/ \E fail \in {"", "run", "prepare", "bind", "step"}, now \in 2..MaxClock :
          InsertRecord(fail, now)
    \/ InsertFinish
    \/ \E fail \in {"", "run", "prepare", "bind", "step"}, now \in 2..MaxClock :
          ExecuteUpdate(fail, now)
    \/ \E fail \in {"", "run"} : ExecuteDelete(fail)
    \/ UnknownMethod

QuerySpec == QueryInit /\ [][QueryNext]_vars

\* ------------------------------------------------------------------------
\* Properties of the query executor
\* ------------------------------------------------------------------------
Served(method) == qPc = "done" /\ payload.method = method

\* C3: executeQuery never lets an exception escape; what it returns is
\* either a data payload with no error, or null data with an error that
\* has a message
C3_ExecuteQueryNeverThrows ==
    qPc = "done" =>
        /\ qOutcome = "returned"
        /\ \/ qResult.error = NoError
           \/ /\ qResult.data.tag = "null"
              /\ qResult.error.tag = "error"
              /\ qResult.error.message # <<>>

\* a call in which bind threw a value that is not an Error and the caller
\* still got the error result
C3_Witness ==
    /\ qPc = "done"
    /\ caught.kind = "bind"
    /\ qOutcome = "returned"
    /\ qResult.error.tag = "error"

\* C5: every statement prepared during a call of executeQuery or handleRpc
\* is freed when control returns to the caller
C5_StatementsFreed ==
    /\ qPc = "done" => qOpenStmts = {}
    /\ rpcPc = "done" => openStmts = {}

\* db.run failed on the record at position idx of a multi-record insert:
\* the records before it were stored, this one was not
RunFailedAt(k) ==
    /\ Served("insert")
    /\ caught.kind # "none"
    /\ idx = k
    /\ Len(runLog) = k - 1

\* C6: when the insert of the k-th record fails, the records before it stay
\* stored after the rows the table had, no later record is stored, and the
\* call returns null data with an error
C6_InsertNotAtomic ==
    \A k \in 1..MaxRecords + 1 :
        RunFailedAt(k) =>
            /\ Len(rows) = Len(rowsAtCall) + k - 1
            /\ SubSeq(rows, 1, Len(rowsAtCall)) = rowsAtCall
            /\ \A i \in 1..(k - 1) :
                  ~Lacks(Records[i], "id") =>
                      rows[Len(rowsAtCall) + i].id = Records[i].id
            /\ qResult.data.tag = "null"
            /\ qResult.error.tag = "error"

\* the second record of a batch collided with a stored identifier after the
\* first had been stored
C6_Witness ==
    /\ RunFailedAt(2)
    /\ caught.kind = "unique"
    /\ Len(rows) = Len(rowsAtCall) + 1

\* the rows the filters of the request select in the table as it was
MatchedAtCall == Matching(rowsAtCall, buildWhere(payload.filters, table))

\* C7: a single read returns null data with the not-found error when no row
\* matches, and the matching row itself, with no error, when exactly one
\* row matches
C7_SingleRead ==
    (Served("select") /\ payload.single /\ caught.kind = "none") =>
        /\ MatchedAtCall = <<>> =>
              (qResult.data.tag = "null" /\ qResult.error = notFoundError)
        /\ Len(MatchedAtCall) = 1 =>
              /\ qResult.data.tag = "row"
              /\ qResult.data.row =
                    coerceRowFromSqlite(table, Project(MatchedAtCall[1], payload.columns))
              /\ qResult.error = NoError

\* a single read that found its one row among two stored rows
C7_Witness ==
    /\ Served("select") /\ payload.single /\ caught.kind = "none"
    /\ Len(rowsAtCall) = 2
    /\ Len(MatchedAtCall) = 1
    /\ qResult.data.tag = "row"

\* the row stored for the i-th record of an insert, and the instant read
\* for it
RowOfRecord(i) == rows[Len(rowsAtCall) + i]
NowOfRecord(i) == runLog[i].now

Tracked == table \in TABLES_WITH_UPDATED_AT

\* an identifier the call generated: no caller supplies it and no row had it
Fresh(id) ==
    /\ Truthy(id)
    /\ id \notin BodyValues("id")
    /\ \A j \in 1..Len(rowsAtCall) : rowsAtCall[j].id # id

\* C8 (as claimed): every inserted record without an identifier gets a fresh
\* one, without a creation timestamp gets the current time, and on a tracked
\* table without a modification timestamp gets one equal to its creation
\* timestamp; whatever the caller supplied is stored unchanged.  A value
\* that is missing, null or empty counts as not supplied
C8_InsertDefaultsAsClaimed ==
    Served("insert") =>
        \A i \in 1..Len(runLog) :
            LET r == Records[i]
                row == RowOfRecord(i)
            IN /\ IF Lacks(r, "id") THEN Fresh(row.id) ELSE row.id = r.id
               /\ IF Lacks(r, "created_at") THEN row.created_at = Str(NowOfRecord(i))
                  ELSE row.created_at = r.created_at
               /\ Tracked =>
                     IF Lacks(r, "updated_at") THEN row.updated_at = row.created_at
                     ELSE row.updated_at = r.updated_at

\* C8 (amended): as claimed, except that on a tracked table a record
\* without a modification timestamp gets the current time, which is its
\* creation timestamp only when that was stamped too and not when the
\* caller supplied it
C8_InsertDefaults ==
    Served("insert") =>
        \A i \in 1..Len(runLog) :
            LET r == Records[i]
                row == RowOfRecord(i)
            IN /\ IF Lacks(r, "id") THEN Fresh(row.id) ELSE row.id = r.id
               /\ IF Lacks(r, "created_at") THEN row.created_at = Str(NowOfRecord(i))
                  ELSE row.created_at = r.created_at
               /\ Tracked =>
                     IF Lacks(r, "updated_at") THEN row.updated_at = Str(NowOfRecord(i))
                     ELSE row.updated_at = r.updated_at

\* an insert into people that supplied only the creation timestamp: the
\* modification timestamp is the current time, later than the one supplied
C8_Witness ==
    /\ Served("insert") /\ table = "people"
    /\ Len(runLog) = 1
    /\ ~Lacks(Records[1], "created_at") /\ ~Has(Records[1], "updated_at")
    /\ ~Has(Records[1], "id")
    /\ Fresh(RowOfRecord(1).id)
    /\ RowOfRecord(1).updated_at = Str(NowOfRecord(1))
    /\ RowOfRecord(1).updated_at # RowOfRecord(1).created_at

\* the UPDATE statement of the call was carried out
UpdateRan == Served("update") /\ Len(runLog) = 1

\* C9: an update on a tracked table sets updated_at of every matching row
\* to the current time, whatever the body says; on a table that is not
\* tracked the assignments are those of the body alone; rows the filters
\* reject are left as they were
C9_UpdateStampsModification ==
    UpdateRan =>
        LET body == payload.body[1]
            where == buildWhere(payload.filters, table)
            hit == MatchingIndexes(rowsAtCall, where)
        IN /\ Len(rows) = Len(rowsAtCall)
           /\ \A i \in 1..Len(rows) :
                 IF i \in hit
                 THEN /\ Tracked => (rows[i].updated_at = Str(clock)
                                       /\ clock = runLog[1].now)
                      /\ \A c \in DOMAIN rows[i] \ (IF Tracked THEN {"updated_at"} ELSE {}) :
                            rows[i][c] = IF Has(body, c)
                                         THEN BindValue(coerceDataToSqlite(table, body)[c])
                                         ELSE rowsAtCall[i][c]
                 ELSE rows[i] = rowsAtCall[i]
           /\ ~Tracked => DOMAIN runLog[1].row = DOMAIN body

\* an update of people whose body carried its own updated_at: the matching
\* row has the current time instead, the other row is untouched
C9_Witness ==
    /\ UpdateRan /\ table = "people"
    /\ Has(payload.body[1], "updated_at")
    /\ payload.body[1].updated_at = Str(1)
    /\ \E i, j \in 1..Len(rows) :
          /\ i \in MatchingIndexes(rowsAtCall, buildWhere(payload.filters, table))
          /\ j \notin MatchingIndexes(rowsAtCall, buildWhere(payload.filters, table))
          /\ rows[i].updated_at = Str(clock)
          /\ rows[i].updated_at # Str(1)
          /\ rows[j] = rowsAtCall[j]

\* C10 (as claimed): a uniqueness failure of an insert or update returns
\* null data with code 23505 without passing the error mapper; every other
\* failure passes the mapper and does not get the code 23505
C10_UniqueCodeAsClaimed ==
    (qPc = "done" /\ caught.kind # "none") =>
        IF caught.kind = "unique"
        THEN /\ qResult.data.tag = "null"
             /\ qResult.error.code = "23505"
             /\ mapperCalls = 0
        ELSE /\ mapperCalls = 1
             /\ qResult.error.code # "23505"

\* C10 (amended): a failure whose Error message contains the text
\* 'UNIQUE constraint failed', as that of every uniqueness failure does,
\* returns null data with code 23505 without passing the error mapper; every
\* other failure passes the mapper and does not get the code 23505
C10_UniqueCode ==
    (qPc = "done" /\ caught.kind # "none") =>
        /\ caught.kind = "unique" => (caught.isError /\ Includes(caught.message, UniqueText))
        /\ IF caught.isError /\ Includes(caught.message, UniqueText)
           THEN /\ qResult.data.tag = "null"
                /\ qResult.error.code = "23505"
                /\ mapperCalls = 0
           ELSE /\ mapperCalls = 1
                /\ qResult.error.code # "23505"

\* an update that moved a row onto the identifier of another row and was
\* answered with the code 23505
C10_Witness ==
    /\ Served("update")
    /\ caught.kind = "unique"
    /\ qResult.error.code = "23505"
    /\ mapperCalls = 0
    /\ rows = rowsAtCall

\* ------------------------------------------------------------------------
\* The coercions on their own: a record crosses the storage boundary back
\* and forth
\* ------------------------------------------------------------------------
\* the number of coercions applied in turn to one record
MaxCoercions == 2

CoerceTables == {"people", "events", JsonTable}

\* the columns of the records coerced
CoerceColumns(t) ==
    CASE t = "people" -> {"id", "is_living"}
      [] t = "events" -> {"id", "recurring"}
      [] OTHER -> {"id", "changes"}

\* what the engine may hand back for a column: an INTEGER column holds any
\* integer or NULL, a TEXT column any text or NULL
StoredValues(t, c) ==
    IF c \in BOOLEAN_COLUMNS[t] THEN {Null, Num(0), Num(1), Num(2)}
    ELSE IF c \in JSON_COLUMNS[t]
    THEN {Null, Str(1), Json(Obj(1)), Json(Num(1)), Json(Str(1))}
    ELSE {Str(1), Str(2)}

\* what a caller may give for a column
LogicalValues(t, c) ==
    IF c \in BOOLEAN_COLUMNS[t] THEN {Null, Bool(TRUE), Bool(FALSE), Str(1)}
    ELSE IF c \in JSON_COLUMNS[t] THEN {Null, Str(1), Num(1), Obj(1)}
    ELSE {Str(1), Num(1), Bool(TRUE)}

AllCoerceValues ==
    {Null, Num(0), Num(1), Num(2), Str(1), Str(2), Bool(TRUE), Bool(FALSE),
     Obj(1), Json(Obj(1)), Json(Num(1)), Json(Str(1))}

\* the rows the engine may hand back, over all the columns
StoredRecords(t) ==
    {r \in [CoerceColumns(t) -> AllCoerceValues] :
        \A c \in CoerceColumns(t) : r[c] \in StoredValues(t, c)}

\* the records a caller may give, over all the columns
LogicalRecords(t) ==
    {r \in [CoerceColumns(t) -> AllCoerceValues] :
        \A c \in CoerceColumns(t) : r[c] \in LogicalValues(t, c)}

\* a step is in storage form when it is a row read or the outcome of
\* coerceDataToSqlite, in logical form otherwise
StorageForm(step) == step.fn \in {"row", "coerceDataToSqlite"}

CoerceInit ==
    /\ QueryIdle
    /\ RpcIdle
    /\ WhereIdle
    /\ coerceTable \in CoerceTables
    /\ \/ \E r \in StoredRecords(coerceTable) :
             coerceSteps = <<[fn |-> "row", value |-> r]>>
       \/ \E d \in LogicalRecords(coerceTable) :
             coerceSteps = <<[fn |-> "data", value |-> d]>>

\* a record in storage form is handed to coerceRowFromSqlite
CoerceRowFromSqlite ==
    /\ coerceSteps # <<>>
    /\ Len(coerceSteps) <= MaxCoercions
    /\ StorageForm(coerceSteps[Len(coerceSteps)])
    /\ coerceSteps' = Append(coerceSteps,
           [fn |-> "coerceRowFromSqlite",
            value |-> coerceRowFromSqlite(coerceTable,
                                          coerceSteps[Len(coerceSteps)].value)])
    /\ UNCHANGED <<coerceTable, whereVars, queryVars, rpcVars>>

\* a record in logical form is handed to coerceDataToSqlite
CoerceDataToSqlite ==
    /\ coerceSteps # <<>>
    /\ Len(coerceSteps) <= MaxCoercions
    /\ ~StorageForm(coerceSteps[Len(coerceSteps)])
    /\ coerceSteps' = Append(coerceSteps,
           [fn |-> "coerceDataToSqlite",
            value |-> coerceDataToSqlite(coerceTable,
                                         coerceSteps[Len(coerceSteps)].value)])
    /\ UNCHANGED <<coerceTable, whereVars, queryVars, rpcVars>>

CoerceNext == CoerceRowFromSqlite \/ CoerceDataToSqlite

CoerceSpec == CoerceInit /\ [][CoerceNext]_vars

\* ------------------------------------------------------------------------
\* C11
\* ------------------------------------------------------------------------
\* the value of column c is the same k steps apart
SameAfterTwo(k, c) == coerceSteps[k + 2].value[c] = coerceSteps[k].value[c]

\* columns declared neither boolean nor JSON come out of every coercion as
\* they went in
PassThrough ==
    \A k \in 1..(Len(coerceSteps) - 1) :
        \A c \in CoerceColumns(coerceTable) :
            (c \notin BOOLEAN_COLUMNS[coerceTable] /\ c \notin JSON_COLUMNS[coerceTable])
                => coerceSteps[k + 1].value[c] = coerceSteps[k].value[c]

\* a logical boolean of a boolean column comes back as the same boolean
\* from storage form
LogicalRoundTrip ==
    \A k \in 1..(Len(coerceSteps) - 2) :
        \A c \in CoerceColumns(coerceTable) \cap BOOLEAN_COLUMNS[coerceTable] :
            (~StorageForm(coerceSteps[k])
               /\ coerceSteps[k].value[c] \in {Bool(TRUE), Bool(FALSE)})
                => SameAfterTwo(k, c)

\* C11 as stated: on every declared boolean column, EVERY stored row comes
\* back unchanged from coerceDataToSqlite(coerceRowFromSqlite(row)), every
\* logical boolean comes back as the same boolean from
\* coerceRowFromSqlite(coerceDataToSqlite(data)), and columns declared
\* neither boolean nor JSON pass through both coercions unchanged
C11_RoundTripAsClaimed ==
    /\ \A k \in 1..(Len(coerceSteps) - 2) :
          \A c \in CoerceColumns(coerceTable) \cap BOOLEAN_COLUMNS[coerceTable] :
              StorageForm(coerceSteps[k]) => SameAfterTwo(k, c)
    /\ LogicalRoundTrip
    /\ PassThrough

\* C11: on every declared boolean column, a stored row whose value is 0 or 1
\* comes back unchanged from coerceDataToSqlite(coerceRowFromSqlite(row))
\* and any other stored value comes back as 0; every logical boolean comes
\* back as the same boolean from coerceRowFromSqlite(coerceDataToSqlite(data));
\* columns declared neither boolean nor JSON pass through both coercions
\* unchanged
C11_RoundTrip ==
    /\ \A k \in 1..(Len(coerceSteps) - 2) :
          \A c \in CoerceColumns(coerceTable) \cap BOOLEAN_COLUMNS[coerceTable] :
              StorageForm(coerceSteps[k])
                => IF coerceSteps[k].value[c] \in {Num(0), Num(1)}
                   THEN SameAfterTwo(k, c)
                   ELSE coerceSteps[k + 2].value[c] = Num(0)
    /\ LogicalRoundTrip
    /\ PassThrough

\* a stored row holding 1 in a declared boolean column has been coerced to
\* logical form and back
C11_Witness ==
    /\ Len(coerceSteps) >= 3
    /\ coerceSteps[1].fn = "row"
    /\ \E c \in CoerceColumns(coerceTable) \cap BOOLEAN_COLUMNS[coerceTable] :
          coerceSteps[1].value[c] = Num(1)

\* ------------------------------------------------------------------------
\* C12
\* ------------------------------------------------------------------------
\* a set-membership filter with an empty value list
EmptyIn(f) == f.type = "in" /\ f.value = <<>>

\* executeQuery has returned from the given method without an error
Succeeded(method) == Served(method) /\ qOutcome = "returned" /\ qResult.error = NoError

\* C12: a set-membership filter with an empty value list compiles to the
\* always-false condition and adds no parameter, and no IN is ever written
\* with an empty list; a read, update or delete whose filters include one
\* finds no row: the read hands back none, the table stays as it was; an
\* empty filter list compiles to the empty predicate, under which a read
\* without limit hands back every row, an update assigns to every row and a
\* delete removes every row
C12_EmptyMembership ==
    (table \in Tables /\ qPc # "idle") =>
        LET filters == payload.filters
            where == buildWhere(filters, table)
            Other(f) == ~EmptyIn(f)
            IsFalse(c) == c.op = "1 = 0"
        IN /\ \A i \in 1..Len(where.conds) :
                 where.conds[i].op = "IN" => where.conds[i].n > 0
           /\ Len(SelectSeq(where.conds, IsFalse)) = Len(filters) - Len(SelectSeq(filters, Other))
           /\ where.params = buildWhere(SelectSeq(filters, Other), table).params
           /\ (\E i \in 1..Len(filters) : EmptyIn(filters[i])) =>
                 /\ MatchedAtCall = <<>>
                 /\ Served("select") \/ Served("update") \/ Served("delete")
                       => rows = rowsAtCall
                 /\ Succeeded("select") /\ ~payload.single /\ ~payload.maybeSingle
                       => (qResult.data.tag = "rows" /\ qResult.data.rows = <<>>)
                 /\ Served("select") /\ payload.single /\ caught.kind = "none"
                       => qResult.error = notFoundError
                 /\ Succeeded("update") /\ payload.columns # "" /\ ~payload.single
                       => (qResult.data.tag = "rows" /\ qResult.data.rows = <<>>)
           /\ filters = <<>> =>
                 /\ where.conds = <<>> /\ where.params = <<>>
                 /\ MatchedAtCall = rowsAtCall
                 /\ Succeeded("select") /\ payload.limit = -1
                       /\ ~payload.single /\ ~payload.maybeSingle
                       => /\ qResult.data.tag = "rows"
                          /\ Len(qResult.data.rows) = Len(rowsAtCall)
                 /\ Succeeded("delete") => rows = <<>>
                 /\ UpdateRan =>
                       \A i \in 1..Len(rows) : \A c \in DOMAIN runLog[1].row :
                           rows[i][c] = BindValue(runLog[1].row[c])

\* a read whose first filter alone selects a stored row and whose second is
\* an empty set-membership has handed back no row
C12_Witness ==
    /\ Succeeded("select") /\ ~payload.single /\ ~payload.maybeSingle
    /\ Len(payload.filters) = 2
    /\ EmptyIn(payload.filters[2])
    /\ Matching(rowsAtCall, buildWhere(<<payload.filters[1]>>, table)) # <<>>
    /\ qResult.data.tag = "rows" /\ qResult.data.rows = <<>>

\* ------------------------------------------------------------------------
\* buildWhere on its own, with disjunction filters
\* ------------------------------------------------------------------------
\* the number of comma-separated segments of a condition string
MaxOrSegments == 2

\* segments of the form column.op.value: the six operator codes, a code
\* that is not known, a value that contains periods, a value that names a
\* boolean, an empty value
WellFormedSegments ==
    {<<"father_id", ".", "eq", ".", "A">>,
     <<"mother_id", ".", "neq", ".", "B">>,
     <<"birth_year", ".", "gt", ".", "1900">>,
     <<"birth_year", ".", "gte", ".", "1", ".", "5">>,
     <<"birth_year", ".", "lt", ".", "1", ".", "5", ".", "0">>,
     <<"birth_year", ".", "lte", ".", "1900">>,
     <<"name", ".", "like", ".", "A">>,
     <<"is_living", ".", "eq", ".", "true">>,
     <<"name", ".", "eq", ".", "A", " ", "B">>,
     <<"name", ".", "eq", ".">>}

\* segments of other forms: blanks around, no value, no operator, nothing
OtherSegments ==
    {<<" ", "father_id", ".", "eq", ".", "A", " ">>,
     <<"father_id", ".", "eq">>,
     <<"father_id">>,
     <<>>}

\* the condition strings: up to MaxOrSegments segments joined by commas
RECURSIVE ConditionsOf(_)
ConditionsOf(n) ==
    IF n = 1 THEN WellFormedSegments \cup OtherSegments
    ELSE {c \o <<",">> \o g : c \in ConditionsOf(n - 1),
                               g \in WellFormedSegments \cup OtherSegments}

Conditions == UNION {ConditionsOf(n) : n \in 1..MaxOrSegments}

OrFilter(condition) ==
    [type |-> "or", column |-> "", operator |-> "", condition |-> condition,
     value |-> <<>>]

\* the filter lists given to buildWhere: any one filter, and a disjunction
\* after an equality or before a set-membership
WhereFilterLists(t) ==
    {<<f>> : f \in Filters(t)}
      \cup {<<OrFilter(c)>> : c \in Conditions}
      \cup {<<f, OrFilter(c)>> : f \in {g \in Filters(t) : g.type = "eq"},
                                 c \in Conditions}
      \cup {<<OrFilter(c), f>> : f \in {g \in Filters(t) : g.type = "in"},
                                 c \in Conditions}

WhereInit ==
    /\ QueryIdle
    /\ RpcIdle
    /\ CoerceIdle
    /\ whereTable \in Tables
    /\ whereFilters \in WhereFilterLists(whereTable)
    /\ whereResult = <<>>

\* buildWhere(filters, table) returns
BuildWhere ==
    /\ whereResult = <<>>
    /\ whereResult' = <<buildWhere(whereFilters, whereTable)>>
    /\ UNCHANGED <<whereTable, whereFilters, coerceVars, queryVars, rpcVars>>

WhereNext == BuildWhere

WhereSpec == WhereInit /\ [][WhereNext]_vars

\* ------------------------------------------------------------------------
\* C13
\* ------------------------------------------------------------------------
\* the positions of the piece p in the string s, in increasing order
RECURSIVE PositionsFrom(_, _, _)
PositionsFrom(s, p, i) ==
    IF i > Len(s) THEN <<>>
    ELSE (IF s[i] = p THEN <<i>> ELSE <<>>) \o PositionsFrom(s, p, i + 1)

\* the j-th comma-separated segment of a condition string: what lies
\* between the (j-1)-th and the j-th comma
SegmentAt(c, j) ==
    LET commas == <<0>> \o PositionsFrom(c, ",", 1) \o <<Len(c) + 1>>
    IN SubSeq(c, commas[j] + 1, commas[j + 1] - 1)

SegmentCount(c) == Len(PositionsFrom(c, ",", 1)) + 1

\* a segment has the form column.op.value: a column and an operator code,
\* each followed by a period, and no blank at either end
HasForm(g) ==
    /\ Len(PositionsFrom(g, ".", 1)) >= 2
    /\ PositionsFrom(g, ".", 1)[1] > 1
    /\ g[1] # " " /\ g[Len(g)] # " "

\* the operator the claim gives a code
OperatorOfCode(code) ==
    IF code = <<"neq">> THEN "!="
    ELSE IF code = <<"gt">> THEN ">"
    ELSE IF code = <<"gte">> THEN ">="
    ELSE IF code = <<"lt">> THEN "<"
    ELSE IF code = <<"lte">> THEN "<="
    ELSE "="

\* C13: a disjunction filter whose condition string has n comma-separated
\* segments of the form column.op.value contributes exactly one condition,
\* an OR-group of n terms, and exactly n parameters, placed after those of
\* the filters before it; the j-th term has the column before the first
\* period of the j-th segment and the operator of the code between the
\* first and the second period, and the j-th parameter is the text after
\* the second period, periods included, as a string
C13_Disjunction ==
    whereResult # <<>> =>
        \A i \in 1..Len(whereFilters) :
            LET f == whereFilters[i]
                c == f.condition
                n == SegmentCount(c)
                before == buildWhere(SubSeq(whereFilters, 1, i - 1), whereTable)
                own == buildWhere(SubSeq(whereFilters, 1, i), whereTable)
                where == whereResult[1]
            IN (f.type = "or" /\ \A j \in 1..n : HasForm(SegmentAt(c, j))) =>
                  /\ Len(own.conds) = Len(before.conds) + 1
                  /\ Len(own.params) = Len(before.params) + n
                  /\ Len(where.conds) >= Len(own.conds)
                  /\ Len(where.params) >= Len(own.params)
                  /\ LET group == where.conds[Len(own.conds)] IN
                     /\ group.op = "OR"
                     /\ group.n = n
                     /\ Len(group.terms) = n
                     /\ \A j \in 1..n :
                           LET g == SegmentAt(c, j)
                               dots == PositionsFrom(g, ".", 1)
                           IN /\ group.terms[j].column = SubSeq(g, 1, dots[1] - 1)
                              /\ group.terms[j].op =
                                    OperatorOfCode(SubSeq(g, dots[1] + 1, dots[2] - 1))
                              /\ where.params[Len(before.params) + j] =
                                    Text(SubSeq(g, dots[2] + 1, Len(g)))

\* buildWhere has compiled, after an equality filter, a disjunction of two
\* segments of the form column.op.value, one with a value that contains
\* periods and one with a code that is not known
C13_Witness ==
    /\ whereResult # <<>>
    /\ Len(whereFilters) = 2
    /\ whereFilters[2].type = "or"
    /\ whereFilters[2].condition =
          <<"birth_year", ".", "gte", ".", "1", ".", "5">> \o <<",">>
             \o <<"name", ".", "like", ".", "A">>
    /\ Len(whereResult[1].conds) = 2
    /\ Len(whereResult[1].params) = 3

\* ------------------------------------------------------------------------
\* C14
\* ------------------------------------------------------------------------
\* the request names a function handleRpc does not know
UnknownFunction == rpcPc # "idle" /\ functionName # "is_person_in_subtree"

\* the request is is_person_in_subtree without root_id or without target_id
ParamsMissing ==
    /\ rpcPc # "idle"
    /\ functionName = "is_person_in_subtree"
    /\ (rootId = NoPerson \/ targetId = NoPerson)

\* C14: while and after handleRpc serves a request for an unknown function
\* or for is_person_in_subtree with root_id or target_id missing, no
\* statement has been prepared or stepped and none is open; the call
\* returns, with null data and an error: one whose message names the
\* function, respectively the validation error
C14_NoEngineBeforeValidation ==
    (UnknownFunction \/ ParamsMissing) =>
        /\ engineCalls = 0
        /\ expanded = <<>>
        /\ openStmts = {}
        /\ rpcPc \in {"call", "done"}
        /\ rpcPc = "done" =>
              /\ rpcOutcome = "returned"
              /\ rpcResult.data.tag = "null"
              /\ rpcResult.error.tag = "error"
              /\ UnknownFunction =>
                    /\ Includes(rpcResult.error.message, functionName)
                    /\ Includes(rpcResult.error.message, "Unknown RPC function: ")
              /\ ParamsMissing =>
                    rpcResult.error.message = <<"Missing root_id or target_id">>

\* handleRpc has returned from is_person_in_subtree called with a root_id
\* but no target_id, over a graph that has children
C14_Witness ==
    /\ ParamsMissing
    /\ rootId # NoPerson
    /\ children # {}
    /\ rpcPc = "done"
    /\ rpcResult.error.tag = "error"

\* ------------------------------------------------------------------------
\* C15
\* ------------------------------------------------------------------------
\* the rows the UPDATE statement of the call modified, as they are stored
\* after it, in logical form and projected
ModifiedRows ==
    LET hit == MatchingIndexes(rowsAtCall, buildWhere(payload.filters, table))
        Hit(r) == \E i \in hit : rows[i] = r
        stored == SelectSeq(rows, Hit)
    IN [i \in 1..Len(stored) |->
          coerceRowFromSqlite(table, Project(stored[i], payload.columns))]

\* C15: an update with a projection that succeeds returns the rows its
\* UPDATE statement modified, as they are after it: all of them and no
\* other row, or with the single modifier the first of them (null when
\* there is none), whatever the body assigns
C15_UpdateReturnsModifiedRows ==
    (UpdateRan /\ Succeeded("update") /\ payload.columns # "") =>
        IF payload.single
        THEN IF ModifiedRows = <<>>
             THEN qResult.data.tag = "null"
             ELSE qResult.data.tag = "row" /\ qResult.data.row = ModifiedRows[1]
        ELSE qResult.data.tag = "rows" /\ qResult.data.rows = ModifiedRows

\* ------------------------------------------------------------------------
\* C16
\* ------------------------------------------------------------------------
\* the rows the filters select, in the order requested, in logical form
\* and projected
OrderedMatches ==
    LET ordered == IF payload.order = "" THEN MatchedAtCall
                   ELSE OrderById(MatchedAtCall, payload.order)
    IN [i \in 1..Len(ordered) |->
          coerceRowFromSqlite(table, Project(ordered[i], payload.columns))]

\* C16: a read with a limit n >= 0 and no cardinality modifier that succeeds
\* returns the first n of the matching rows in the requested order, all of
\* them when there are fewer; for n = 0 it returns no row
C16_LimitBoundsRead ==
    (Succeeded("select") /\ payload.limit >= 0
       /\ ~payload.single /\ ~payload.maybeSingle) =>
        /\ qResult.data.tag = "rows"
        /\ Len(qResult.data.rows) <= payload.limit
        /\ qResult.data.rows =
              SubSeq(OrderedMatches, 1,
                     IF payload.limit < Len(OrderedMatches)
                     THEN payload.limit ELSE Len(OrderedMatches))
====
